---------------------------- MODULE Spec2Model ----------------------------
(***************************************************************************)
(* The YAML event-stream scans of src/backend/utils/adt/yamlfunc.c and the *)
(* SQL entry points of src/backend/utils/adt/yaml.c.                       *)
(*                                                                         *)
(* One behaviour is one SQL call on one input text.  The text is           *)
(* represented by what libyaml's yaml_parser_parse produces for it: the    *)
(* sequence of events, possibly ended by a parser failure.  Indices are    *)
(* the C indices (0-based): Ev(s, i) is context->events[i].                *)
(* Strings are sequences of character codes, so that strncmp and strlen    *)
(* are computed as the C library computes them.                            *)
(***************************************************************************)
EXTENDS Integers, Sequences, FiniteSets, TLC

(***************************************************************************)
(* Bounds of the model.                                                    *)
(***************************************************************************)
\* Largest number of events of the root node of a generated document.
MaxNodeLen == 7

\* The longest root node, in events, of the documents of a two-document stream.
MaxStreamNodeLen == 3

\* The longest stream, in events, on which the termination of the scans is
\* checked.
MaxLiveStreamLen == 9

\* Number of elements of the long flat sequence: with them the stream has
\* more events than the events array first holds.
LongSeqLen == 254

\* Lengths in bytes of the two long scalars: the first fills the emitter's
\* working buffer once, the second twice.
MediumScalarLen == 16384

LongScalarLen == 32768

(***************************************************************************)
(* Constants of the program.                                               *)
(***************************************************************************)
\* emitter.buffer.end - emitter.buffer.start after yaml_emitter_initialize:
\* the size of the emitter's working buffer (libyaml's OUTPUT_BUFFER_SIZE),
\* which yaml_get_sub_tree takes as the first size of its output buffer.
OutputBufferSize == 16384

\* The free space below which the output buffer is doubled.
LowWaterMark == 16384

\* The offset in the output buffer at which the returned text starts.
PrologueBytes == 14

\* context->events_capacity as pg_parse_yaml first sets it.
InitialCapacity == 256

(***************************************************************************)
(* Events (yaml_event_t).  A scalar carries its value and the style and    *)
(* implicit flags the parser gave it; the other events carry none.         *)
(***************************************************************************)
Event(t) ==
    [type |-> t, value |-> <<>>, style |-> 0,
     plain_implicit |-> 0, quoted_implicit |-> 0]

Scalar(v, st, pi, qi) ==
    [type |-> "YAML_SCALAR_EVENT", value |-> v, style |-> st,
     plain_implicit |-> pi, quoted_implicit |-> qi]

StreamStart   == Event("YAML_STREAM_START_EVENT")
StreamEnd     == Event("YAML_STREAM_END_EVENT")
DocumentStart == Event("YAML_DOCUMENT_START_EVENT")
DocumentEnd   == Event("YAML_DOCUMENT_END_EVENT")
SequenceStart == Event("YAML_SEQUENCE_START_EVENT")
SequenceEnd   == Event("YAML_SEQUENCE_END_EVENT")
MappingStart  == Event("YAML_MAPPING_START_EVENT")
MappingEnd    == Event("YAML_MAPPING_END_EVENT")
Alias         == Event("YAML_ALIAS_EVENT")

\* The scalars of the generated documents: the plain scalar a and the
\* double-quoted scalar "ab" (style 1 is YAML_PLAIN_SCALAR_STYLE, style 3
\* YAML_DOUBLE_QUOTED_SCALAR_STYLE; the parser sets plain_implicit on the
\* first and quoted_implicit on the second).
ScalarA  == Scalar(<<97>>, 1, 1, 0)
ScalarAB == Scalar(<<97, 98>>, 3, 0, 1)

Scalars == {ScalarA, ScalarAB}

\* A node of one event: a scalar or an alias (*anchor).
Leaves == Scalars \cup {Alias}

\* The key strings asked for: "", "a", "ab", "b".
Keys == {<<>>, <<97>>, <<97, 98>>, <<98>>}

(***************************************************************************)
(* What the parser yields for the texts of the model.  NodeTable[n+1] holds*)
(* the event sequences of length n that are one node (node), an even       *)
(* number of nodes (even) or an odd number of nodes (odd): a sequence      *)
(* holds any number of nodes, a mapping an even number (key, value, ...).  *)
(***************************************************************************)
\* The entry for length n, from the table t of the entries for the lengths
\* 0 .. n-1 (t[k + 1] is the entry for length k).
NodeLevel(t, n) ==
    LET node == IF n = 1 THEN {<<l>> : l \in Leaves}
                ELSE {<<SequenceStart>> \o b \o <<SequenceEnd>>
                         : b \in t[n - 1].even \cup t[n - 1].odd}
                     \cup
                     {<<MappingStart>> \o b \o <<MappingEnd>> : b \in t[n - 1].even}
        nodeOf(k) == IF k = n THEN node ELSE t[k + 1].node
        \* the bodies of the containers of length n + 2: none is needed when
        \* that is longer than the longest node
        lists(p)  == IF n + 2 > MaxNodeLen THEN {}
                     ELSE UNION {
                            {h \o tl : h \in nodeOf(k),
                                       tl \in (IF p = 0 THEN t[n - k + 1].odd
                                                        ELSE t[n - k + 1].even)}
                            : k \in 1..n}
    IN  [node |-> node, even |-> lists(0), odd |-> lists(1)]

RECURSIVE NodeTableFrom(_, _)
NodeTableFrom(t, n) ==
    IF n > MaxNodeLen THEN t
    ELSE NodeTableFrom(Append(t, NodeLevel(t, n)), n + 1)

NodeTable == NodeTableFrom(<<[node |-> {}, even |-> {<<>>}, odd |-> {}]>>, 1)

Nodes == UNION {NodeTable[n + 1].node : n \in 1..MaxNodeLen}

\* A stream of one document: the shape the scans assume.
SingleDocs ==
    {<<StreamStart, DocumentStart>> \o nd \o <<DocumentEnd, StreamEnd>> : nd \in Nodes}

\* The stream of an empty text: no document at all.
EmptyStream == <<StreamStart, StreamEnd>>

\* A stream of two documents (a text with a --- line between them): the
\* parser yields the events of both, one after the other, up to the one
\* STREAM-END.  The root nodes are the nodes of MaxStreamNodeLen events or less.
StreamNodes == UNION {NodeTable[n + 1].node : n \in 1..MaxStreamNodeLen}

TwoDocs ==
    {<<StreamStart, DocumentStart>> \o n1 \o <<DocumentEnd, DocumentStart>> \o n2
        \o <<DocumentEnd, StreamEnd>> : n1 \in StreamNodes, n2 \in StreamNodes}

\* The parser's errors (yaml_error_type_t) that end a parse.
ParserErrors == {"YAML_SCANNER_ERROR", "YAML_PARSER_ERROR", "YAML_MEMORY_ERROR"}

\* A position in the text (yaml_mark_t); NoMark where there is none.
Mark(n) == [index |-> 2 * n, line |-> n, column |-> 0]

NoMark == [index |-> -1, line |-> -1, column |-> -1]

\* A text as the parser sees it: the events yaml_parser_parse yields one by
\* one and, when error is not YAML_NO_ERROR, the failure of the call after
\* them, with what the parser leaves in parser.problem, parser.context and
\* parser.problem_mark.
Parsed(d) ==
    [events |-> d, error |-> "YAML_NO_ERROR",
     problem |-> "", context |-> "", problem_mark |-> NoMark]

ParserProblem(e) ==
    CASE e = "YAML_SCANNER_ERROR" -> "found character that cannot start any token"
      [] e = "YAML_PARSER_ERROR"  -> "did not find expected node content"
      [] OTHER                    -> ""

ParserContext(e) ==
    CASE e = "YAML_SCANNER_ERROR" -> "while scanning for the next token"
      [] e = "YAML_PARSER_ERROR"  -> "while parsing a block node"
      [] OTHER                    -> ""

Failing(d, n, e) ==
    [events |-> SubSeq(d, 1, n), error |-> e,
     problem |-> ParserProblem(e), context |-> ParserContext(e),
     problem_mark |-> Mark(n)]

FailingInputs ==
    {Failing(<<StreamStart, DocumentStart, SequenceStart, ScalarA>>, n, e) :
        n \in 1..3, e \in ParserErrors}

\* Documents that hold a long plain scalar (MediumScalarLen or LongScalarLen
\* times the letter a): one alone, two in a sequence, one as the value of
\* the key a of a mapping.
ScalarMedium == Scalar([k \in 1..MediumScalarLen |-> 97], 1, 1, 0)

ScalarLong == Scalar([k \in 1..LongScalarLen |-> 97], 1, 1, 0)

LongScalarDocs ==
    {<<StreamStart, DocumentStart>> \o nd \o <<DocumentEnd, StreamEnd>> :
        nd \in {<<ScalarMedium>>, <<ScalarLong>>,
                <<SequenceStart, ScalarMedium, ScalarMedium, SequenceEnd>>,
                <<MappingStart, ScalarA, ScalarLong, MappingEnd>>}}

\* A flat sequence of LongSeqLen scalars, and a text that fails after them.
LongDoc ==
    <<StreamStart, DocumentStart, SequenceStart>>
        \o [k \in 1..LongSeqLen |-> ScalarA]
        \o <<SequenceEnd, DocumentEnd, StreamEnd>>

LongFailingInput == Failing(LongDoc, LongSeqLen + 3, "YAML_PARSER_ERROR")

Inputs ==
    {Parsed(d) : d \in SingleDocs \cup TwoDocs \cup {EmptyStream, LongDoc}
                        \cup LongScalarDocs}
        \cup FailingInputs \cup {LongFailingInput}

(***************************************************************************)
(* C helpers.                                                              *)
(***************************************************************************)
\* context->events[i], i counted from 0 as in the C code.
Ev(s, i) == s[i + 1]

\* The byte at offset k of a NUL-terminated string: the terminator past its end.
CharAt(s, k) == IF k < Len(s) THEN s[k + 1] ELSE 0

strlen(s) == Len(s)

\* strncmp(s1, s2, n): the difference of the first differing bytes among the
\* first n, 0 when there is none before n bytes or before the terminator.
RECURSIVE strncmp_from(_, _, _, _)
strncmp_from(s1, s2, n, k) ==
    IF k >= n THEN 0
    ELSE IF CharAt(s1, k) # CharAt(s2, k) THEN CharAt(s1, k) - CharAt(s2, k)
    ELSE IF CharAt(s1, k) = 0 THEN 0
    ELSE strncmp_from(s1, s2, n, k + 1)

strncmp(s1, s2, n) == strncmp_from(s1, s2, n, 0)

\* The type names yaml_get_object_type returns, as character codes.
TextScalar   == <<115, 99, 97, 108, 97, 114>>
TextSequence == <<115, 101, 113, 117, 101, 110, 99, 101>>
TextMapping  == <<109, 97, 112, 112, 105, 110, 103>>
TextUnknown  == <<85, 110, 107, 110, 111, 119, 110, 32, 84, 121, 112, 101>>

(***************************************************************************)
(* Mutants of yaml_get_object_type: the switch made on the event after the *)
(* root's first, and the default case answering with a real type name.     *)
(***************************************************************************)
yaml_get_object_type_AtIndex3(s) ==
    CASE Ev(s, 3).type = "YAML_SCALAR_EVENT"         -> TextScalar
      [] Ev(s, 3).type = "YAML_SEQUENCE_START_EVENT" -> TextSequence
      [] Ev(s, 3).type = "YAML_MAPPING_START_EVENT"  -> TextMapping
      [] OTHER                                       -> TextUnknown

yaml_get_object_type_DefaultScalar(s) ==
    CASE Ev(s, 2).type = "YAML_SEQUENCE_START_EVENT" -> TextSequence
      [] Ev(s, 2).type = "YAML_MAPPING_START_EVENT"  -> TextMapping
      [] OTHER                                       -> TextScalar

(***************************************************************************)
(* yaml_get_object_type: the switch on context->events[2]->type.           *)
(***************************************************************************)
yaml_get_object_type(s) ==
    CASE Ev(s, 2).type = "YAML_SCALAR_EVENT"         -> TextScalar
      [] Ev(s, 2).type = "YAML_SEQUENCE_START_EVENT" -> TextSequence
      [] Ev(s, 2).type = "YAML_MAPPING_START_EVENT"  -> TextMapping
      [] OTHER                                       -> TextUnknown

\* The two asserts and the read of events[2] need three events: the array is
\* zero-filled (palloc0), so with fewer the read of events[2]->type is a
\* NULL dereference (or the assert on events[1] aborts first).
TypeReadable(s) ==
    /\ Len(s) > 2
    /\ Ev(s, 0).type = "YAML_STREAM_START_EVENT"
    /\ Ev(s, 1).type = "YAML_DOCUMENT_START_EVENT"

\* Mutant of IsSequenceType: the text "mapping" passes the test as well.
IsSequenceType_OrMapping(t) ==
    strncmp(t, TextSequence, Len(t)) = 0 \/ strncmp(t, TextMapping, Len(t)) = 0

\* Mutant of IsSequenceType: only the first byte is compared.
IsSequenceType_FirstByte(t) == strncmp(t, TextSequence, 1) = 0

\* The test both callers make on the type: strncmp over the type's length.
IsSequenceType(t) == strncmp(t, TextSequence, Len(t)) = 0

(***************************************************************************)
(* The i++ of the for loops of the scans: the index of the next iteration. *)
(***************************************************************************)
\* Mutant of NextIndex: the index is not advanced.
NextIndex_Stay(i) == i

NextIndex(i) == i + 1

(***************************************************************************)
(* yaml_count_array_size: one iteration of the loop on event e.            *)
(***************************************************************************)
CountEvent(e, scope, count) ==
    CASE e.type = "YAML_SCALAR_EVENT" ->
            [scope |-> scope, count |-> IF scope = 1 THEN count + 1 ELSE count]
      [] e.type \in {"YAML_SEQUENCE_START_EVENT", "YAML_MAPPING_START_EVENT"} ->
            [scope |-> scope + 1, count |-> IF scope = 1 THEN count + 1 ELSE count]
      [] e.type \in {"YAML_SEQUENCE_END_EVENT", "YAML_MAPPING_END_EVENT"} ->
            [scope |-> scope - 1, count |-> count]
      [] OTHER ->
            [scope |-> scope, count |-> count]

(***************************************************************************)
(* yaml_find_key_on_root: the comparison of a scalar with the key, and one *)
(* iteration of the loop on event e.                                       *)
(***************************************************************************)
KeyMatches(value, k) == strncmp(value, k, strlen(k)) = 0

\* Mutant of FindEvent: a scalar is compared at any depth inside the root
\* (the test is scope < 0 instead of scope != 0).
FindEvent_AnyScope(e, scope, kv_toggle, k) ==
    CASE e.type \in {"YAML_SEQUENCE_START_EVENT", "YAML_MAPPING_START_EVENT"} ->
            [scope |-> scope + 1, kv_toggle |-> kv_toggle,
             compared |-> FALSE, matched |-> FALSE]
      [] e.type \in {"YAML_SEQUENCE_END_EVENT", "YAML_MAPPING_END_EVENT"} ->
            [scope |-> scope - 1, kv_toggle |-> 0,
             compared |-> FALSE, matched |-> FALSE]
      [] e.type = "YAML_SCALAR_EVENT" ->
            IF scope < 0
            THEN [scope |-> scope, kv_toggle |-> kv_toggle,
                  compared |-> FALSE, matched |-> FALSE]
            ELSE IF kv_toggle = 0
            THEN [scope |-> scope, kv_toggle |-> 1,
                  compared |-> TRUE, matched |-> KeyMatches(e.value, k)]
            ELSE [scope |-> scope, kv_toggle |-> 0,
                  compared |-> FALSE, matched |-> FALSE]
      [] OTHER ->
            [scope |-> scope, kv_toggle |-> kv_toggle,
             compared |-> FALSE, matched |-> FALSE]

FindEvent(e, scope, kv_toggle, k) ==
    CASE e.type \in {"YAML_SEQUENCE_START_EVENT", "YAML_MAPPING_START_EVENT"} ->
            [scope |-> scope + 1, kv_toggle |-> kv_toggle,
             compared |-> FALSE, matched |-> FALSE]
      [] e.type \in {"YAML_SEQUENCE_END_EVENT", "YAML_MAPPING_END_EVENT"} ->
            [scope |-> scope - 1, kv_toggle |-> 0,
             compared |-> FALSE, matched |-> FALSE]
      [] e.type = "YAML_SCALAR_EVENT" ->
            IF scope # 0
            THEN [scope |-> scope, kv_toggle |-> kv_toggle,
                  compared |-> FALSE, matched |-> FALSE]
            ELSE IF kv_toggle = 0
            THEN [scope |-> scope, kv_toggle |-> 1,
                  compared |-> TRUE, matched |-> KeyMatches(e.value, k)]
            ELSE [scope |-> scope, kv_toggle |-> 0,
                  compared |-> FALSE, matched |-> FALSE]
      [] OTHER ->
            [scope |-> scope, kv_toggle |-> kv_toggle,
             compared |-> FALSE, matched |-> FALSE]

(***************************************************************************)
(* yaml_get_sub_tree: the copy made of an event, one iteration of the loop *)
(* on event e, and libyaml's emitter as far as it accepts or refuses the   *)
(* events handed to yaml_emitter_emit.                                     *)
(***************************************************************************)
\* unsigned int scope: the counter is held by the representative of its
\* residue modulo 2^32 that is nearest to 0, so that -1 stands for UINT_MAX
\* (0 decremented).  The code only increments, decrements and compares it
\* with 0, and it moves at most once per event, so no representative leaves
\* the range and equality with 0 is that of the residues.
UIntInc(scope) == scope + 1

UIntDec(scope) == scope - 1

\* yaml_scalar_event_initialize(&event_copy, anchor, tag, value, length,
\* style, quoted_implicit, style): the style is passed where plain_implicit
\* is expected.  The other events are rebuilt from their own fields.
EventCopy(e) ==
    IF e.type = "YAML_SCALAR_EVENT"
    THEN [type |-> e.type, value |-> e.value, style |-> e.style,
          plain_implicit |-> e.style, quoted_implicit |-> e.quoted_implicit]
    ELSE Event(e.type)

SubTreeEvent(e, scope) ==
    CASE e.type = "YAML_SCALAR_EVENT" ->
            [scope |-> scope, emit |-> TRUE,
             done |-> IF scope = 0 THEN 1 ELSE 0]
      [] e.type \in {"YAML_SEQUENCE_START_EVENT", "YAML_MAPPING_START_EVENT"} ->
            [scope |-> UIntInc(scope), emit |-> TRUE, done |-> 0]
      [] e.type \in {"YAML_SEQUENCE_END_EVENT", "YAML_MAPPING_END_EVENT"} ->
            [scope |-> UIntDec(scope), emit |-> TRUE,
             done |-> IF UIntDec(scope) = 0 THEN 1 ELSE 0]
      [] e.type \in {"YAML_STREAM_END_EVENT", "YAML_DOCUMENT_END_EVENT"} ->
            [scope |-> scope, emit |-> FALSE, done |-> 1]
      [] OTHER ->
            [scope |-> scope, emit |-> FALSE, done |-> 0]

\* The emitter after yaml_emitter_initialize: it expects STREAM-START.
\* stack holds the open containers: "SEQ", "MAP_KEY" (a key or MAPPING-END is
\* expected) or "MAP_VALUE" (a value is expected).
\* pending is the number of bytes in the emitter's working buffer, size the
\* size of the output buffer (output.string.size) and size_written the
\* number of bytes written to it, as yaml_emitter_set_output_string and the
\* growth of the buffer set them.
EmitterInit ==
    [state |-> "STREAM_START", stack |-> <<>>, error |-> "YAML_NO_ERROR",
     pending |-> 0, size |-> OutputBufferSize, size_written |-> 0]

\* A node has been completed below the containers of stack st.
NodeDone(em, st) ==
    IF st = <<>>
    THEN [em EXCEPT !.state = "DOCUMENT_END", !.stack = st]
    ELSE LET top == st[Len(st)]
             nxt == CASE top = "MAP_KEY"   -> "MAP_VALUE"
                      [] top = "MAP_VALUE" -> "MAP_KEY"
                      [] OTHER             -> "SEQ"
         IN  [em EXCEPT !.state = "NODE", !.stack = [st EXCEPT ![Len(st)] = nxt]]

EmitterFail(em) == [em EXCEPT !.error = "YAML_EMITTER_ERROR"]

\* yaml_emitter_flush with the string write handler: the working buffer is
\* written to the output buffer when it fits in what is left of it;
\* otherwise the handler fills the output buffer, sets size_written to its
\* size and fails, and the emitter's error is YAML_WRITER_ERROR.
yaml_emitter_flush(em) ==
    IF em.error # "YAML_NO_ERROR" \/ em.pending = 0 THEN em
    ELSE IF em.size - em.size_written < em.pending
    THEN [em EXCEPT !.size_written = em.size, !.error = "YAML_WRITER_ERROR"]
    ELSE [em EXCEPT !.size_written = @ + em.pending, !.pending = 0]

\* n bytes put one after the other into the working buffer, which is flushed
\* before a byte is put when fewer than 5 bytes of it are free.
RECURSIVE EmitterWrite(_, _)
EmitterWrite(em, n) ==
    IF em.error # "YAML_NO_ERROR" \/ n = 0 THEN em
    ELSE IF em.pending + 5 >= OutputBufferSize
    THEN EmitterWrite(yaml_emitter_flush(em), n)
    ELSE LET room == OutputBufferSize - 5 - em.pending
             k    == IF n < room THEN n ELSE room
         IN  EmitterWrite([em EXCEPT !.pending = @ + k], n - k)

\* The number of bytes the emitter writes for an event it accepts, in block
\* style with an indentation of 2: "%YAML 1.1", a line break and "---" for
\* DOCUMENT-START; for a node a separator (a space after "---", or a line
\* break, the indentation and the indicator), then the value of a scalar
\* with its quotes if it has any; a line break for DOCUMENT-END.
EventBytes(em, e) ==
    CASE e.type = "YAML_DOCUMENT_START_EVENT" -> 13
      [] e.type = "YAML_DOCUMENT_END_EVENT"   -> 1
      [] e.type = "YAML_SCALAR_EVENT" ->
            1 + 2 * Len(em.stack) + Len(e.value) + (IF e.style = 1 THEN 0 ELSE 2)
      [] e.type \in {"YAML_SEQUENCE_START_EVENT", "YAML_MAPPING_START_EVENT",
                     "YAML_ALIAS_EVENT"} ->
            1 + 2 * Len(em.stack)
      [] OTHER -> 0

\* The emitter's state machine: an event it does not expect sets
\* emitter->error to YAML_EMITTER_ERROR.
EmitterState(em, e) ==
    LET st  == em.stack
        top == IF st = <<>> THEN "ROOT" ELSE st[Len(st)]
        pop == SubSeq(st, 1, Len(st) - 1)
    IN
    IF em.error # "YAML_NO_ERROR" THEN em
    ELSE CASE em.state = "STREAM_START" ->
                IF e.type = "YAML_STREAM_START_EVENT"
                THEN [em EXCEPT !.state = "DOCUMENT_START"]
                ELSE EmitterFail(em)
           [] em.state = "DOCUMENT_START" ->
                IF e.type = "YAML_DOCUMENT_START_EVENT"
                THEN [em EXCEPT !.state = "NODE"]
                ELSE IF e.type = "YAML_STREAM_END_EVENT"
                THEN [em EXCEPT !.state = "END"]
                ELSE EmitterFail(em)
           [] em.state = "NODE" ->
                IF top = "SEQ" /\ e.type = "YAML_SEQUENCE_END_EVENT" THEN NodeDone(em, pop)
                ELSE IF top = "MAP_KEY" /\ e.type = "YAML_MAPPING_END_EVENT" THEN NodeDone(em, pop)
                ELSE IF e.type \in {"YAML_SCALAR_EVENT", "YAML_ALIAS_EVENT"} THEN NodeDone(em, st)
                ELSE IF e.type = "YAML_SEQUENCE_START_EVENT"
                THEN [em EXCEPT !.stack = Append(st, "SEQ")]
                ELSE IF e.type = "YAML_MAPPING_START_EVENT"
                THEN [em EXCEPT !.stack = Append(st, "MAP_KEY")]
                ELSE EmitterFail(em)
           [] em.state = "DOCUMENT_END" ->
                IF e.type = "YAML_DOCUMENT_END_EVENT"
                THEN [em EXCEPT !.state = "DOCUMENT_START"]
                ELSE EmitterFail(em)
           [] OTHER -> EmitterFail(em)

\* yaml_emitter_emit(&emitter, &e): an event the emitter refuses makes the
\* call return 0; an accepted one is written, which fails when a flush of
\* the working buffer does; DOCUMENT-END and STREAM-END flush what is left.
yaml_emitter_emit(em, e) ==
    LET s == EmitterState(em, e)
    IN  IF s.error # "YAML_NO_ERROR" THEN s
        ELSE IF e.type \in {"YAML_DOCUMENT_END_EVENT", "YAML_STREAM_END_EVENT"}
        THEN yaml_emitter_flush(EmitterWrite(s, EventBytes(em, e)))
        ELSE EmitterWrite(s, EventBytes(em, e))

(***************************************************************************)
(* pg_parse_yaml: the growth of the events array before an event is stored *)
(* at index events_length.                                                 *)
(***************************************************************************)
\* Mutant of GrowCapacity: the array is never grown.
GrowCapacity_Never(events_length, capacity) == capacity

GrowCapacity(events_length, capacity) ==
    IF events_length = capacity THEN capacity * 2 ELSE capacity

(***************************************************************************)
(* yaml_ereport_error: the SQL error reported for a parser error.          *)
(***************************************************************************)
yaml_ereport_error(error) ==
    IF error \in {"YAML_READER_ERROR", "YAML_SCANNER_ERROR",
                  "YAML_PARSER_ERROR", "YAML_COMPOSER_ERROR"}
    THEN "ERRCODE_INVALID_TEXT_REPRESENTATION"
    ELSE "ERRCODE_OBJECT_NOT_IN_PREREQUISITE_STATE"

(***************************************************************************)
(* yaml_ereport_error and print_emitter_error: the messages reported.      *)
(***************************************************************************)
\* An error report: the parts of its message, and the position in the text
\* it carries (NoMark when it carries none).
NoReport == [message |-> <<>>, position |-> NoMark]

\* errmsg("%s : %s", parser.problem, parser.context) for the errors of the
\* syntax, errmsg("YAML parser is in an invalid state : %s", parser.problem)
\* for the others; parser.problem_mark is not used.
yaml_ereport_message(inp) ==
    IF inp.error \in {"YAML_READER_ERROR", "YAML_SCANNER_ERROR",
                      "YAML_PARSER_ERROR", "YAML_COMPOSER_ERROR"}
    THEN [message |-> <<inp.problem, " : ", inp.context>>, position |-> NoMark]
    ELSE [message |-> <<"YAML parser is in an invalid state : ", inp.problem>>,
          position |-> NoMark]

\* Mutant of print_emitter_error: every error is reported as an emitter error.
print_emitter_error_AllEmitter(error) ==
    [message |-> <<"Emitter error">>, position |-> NoMark]

\* The switch of print_emitter_error on emitter->error.
print_emitter_error(error) ==
    CASE error = "YAML_MEMORY_ERROR" ->
            [message |-> <<"Memory error: Not enough memory for emitting">>,
             position |-> NoMark]
      [] error = "YAML_WRITER_ERROR" ->
            [message |-> <<"Writer error">>, position |-> NoMark]
      [] error = "YAML_EMITTER_ERROR" ->
            [message |-> <<"Emitter error">>, position |-> NoMark]
      [] OTHER ->
            [message |-> <<"Internal error">>, position |-> NoMark]

\* The kind of the failure the emitter's error stands for.
FailureKind(error) ==
    CASE error = "YAML_MEMORY_ERROR"  -> "Memory"
      [] error = "YAML_WRITER_ERROR"  -> "Writer"
      [] error = "YAML_EMITTER_ERROR" -> "Emitter"
      [] OTHER                        -> "none"

\* What can go wrong in one iteration of the loop of yaml_get_sub_tree apart
\* from what the events and the buffer decide: the copy of the event is not
\* built (yaml_*_event_initialize returns 0), or the emitter runs out of
\* memory taking the event.
Faults == {"none", "copy", "emit_memory"}

(***************************************************************************)
(* The state of one call.                                                  *)
(***************************************************************************)
VARIABLES
    input,          \* the text, as the parser's events and final error
    fn,             \* the function called
    key,            \* pathstr of yaml_object_field
    pc,             \* where the call is
    events,         \* context->events[0 .. events_length - 1]
    events_capacity, \* context->events_capacity
    type,           \* the text yaml_get_object_type returned
    fCount,         \* yaml_count_array_size: i, scope, count
    fFind,          \* yaml_find_key_on_root: i, scope, kv_toggle, compared
    child_location, \* what yaml_find_key_on_root returned
    fSub,           \* yaml_get_sub_tree: location, i, scope, done, allocated_bytes
    emitter,        \* the yaml_emitter_t of yaml_get_sub_tree
    emitted,        \* the events handed to yaml_emitter_emit, in order
    buffer,         \* the output buffer of yaml_get_sub_tree: "none", "live", "freed"
    fElem,          \* yaml_sequence_elements: i, scope
    rows,           \* the values yaml_sequence_elements has put in its result set
    result,         \* the value returned to the caller
    context,        \* the YamlContext: "none", "live" or "freed"
    err,            \* the error raised (ereport(ERROR)), "none" if none
    report,         \* the message and position of the error raised
    failure         \* the kind of the failure met in yaml_get_sub_tree, "none" if none

vars == <<input, fn, key, pc, events, events_capacity, type, fCount, fFind,
          child_location, fSub, emitter, emitted, buffer, fElem, rows, result,
          context, err, report, failure>>

\* A returned value: nothing yet, SQL null, an int32, a text (the type name
\* or the value of a scalar), or the text of an extracted document, held as
\* the events it was emitted from and its length in bytes.
NoResult      == [kind |-> "none", int |-> 0, text |-> <<>>, doc |-> <<>>, bytes |-> 0]
NullResult    == [kind |-> "null", int |-> 0, text |-> <<>>, doc |-> <<>>, bytes |-> 0]
IntResult(n)  == [kind |-> "int32", int |-> n, text |-> <<>>, doc |-> <<>>, bytes |-> 0]
TextResult(t) == [kind |-> "text", int |-> 0, text |-> t, doc |-> <<>>, bytes |-> Len(t)]
DocResult(d)  == [kind |-> "text", int |-> 0, text |-> <<>>, doc |-> d, bytes |-> 0]

NoCount == [i |-> 0, scope |-> 0, count |-> 0]
NoFind  == [i |-> 0, scope |-> 0, kv_toggle |-> 0, compared |-> {}]
NoSub   == [location |-> 0, i |-> 0, scope |-> 0, done |-> 0, allocated_bytes |-> 0]
NoElem  == [i |-> 0, scope |-> 0]

Init ==
    /\ input \in Inputs
    /\ fn = "none"
    /\ key = <<>>
    /\ pc = "idle"
    /\ events = <<>>
    /\ events_capacity = 0
    /\ type = <<>>
    /\ fCount = NoCount
    /\ fFind = NoFind
    /\ child_location = -1
    /\ fSub = NoSub
    /\ emitter = EmitterInit
    /\ emitted = <<>>
    /\ buffer = "none"
    /\ fElem = NoElem
    /\ rows = <<>>
    /\ result = NoResult
    /\ context = "none"
    /\ err = "none"
    /\ report = NoReport
    /\ failure = "none"

(***************************************************************************)
(* The SQL entry points: makeYamlContext, then pg_parse_yaml_or_ereport,   *)
(* whose pg_parse_yaml first sets the capacity of the events array.        *)
(***************************************************************************)
Enter(f, k) ==
    /\ pc = "idle"
    /\ fn' = f
    /\ key' = k
    /\ context' = "live"
    /\ events_capacity' = InitialCapacity
    /\ pc' = "pg_parse_yaml"
    /\ UNCHANGED <<input, events, type, fCount, fFind, child_location, fSub,
                   emitter, emitted, buffer, fElem, rows, result, err, report,
                   failure>>

yaml_typeof == Enter("yaml_typeof", <<>>)

yaml_sequence_length == Enter("yaml_sequence_length", <<>>)

yaml_object_field == \E k \in Keys : Enter("yaml_object_field", k)

yaml_sequence_elements == Enter("yaml_sequence_elements", <<>>)

\* yaml_get_sub_tree called by itself on a parsed context.
yaml_get_sub_tree_call == Enter("yaml_get_sub_tree", <<>>)

\* pg_parse_yaml: one iteration of the do-while loop.  The parser yields its
\* next event, which is appended, or fails, and pg_parse_yaml_or_ereport
\* raises the error yaml_ereport_error chooses.
pg_parse_yaml ==
    /\ pc = "pg_parse_yaml"
    /\ IF Len(events) < Len(input.events)
       THEN LET e == input.events[Len(events) + 1]
            IN  /\ events_capacity' = GrowCapacity(Len(events), events_capacity)
                /\ events' = Append(events, e)
                /\ pc' = IF e.type = "YAML_STREAM_END_EVENT"
                         THEN "parsed" ELSE "pg_parse_yaml"
                /\ UNCHANGED <<err, report>>
       ELSE /\ pc' = "error"
            /\ err' = yaml_ereport_error(input.error)
            /\ report' = yaml_ereport_message(input)
            /\ UNCHANGED <<events, events_capacity>>
    /\ UNCHANGED <<input, fn, key, type, fCount, fFind, child_location, fSub,
                   emitter, emitted, buffer, fElem, rows, result, context,
                   failure>>

(***************************************************************************)
(* yaml_typeof after the parse.                                            *)
(***************************************************************************)
yaml_typeof_return ==
    /\ pc = "parsed"
    /\ fn = "yaml_typeof"
    /\ IF TypeReadable(events)
       THEN /\ type' = yaml_get_object_type(events)
            /\ result' = TextResult(type')
            /\ context' = "freed"
            /\ pc' = "done"
       ELSE /\ pc' = "crash"
            /\ UNCHANGED <<type, result, context>>
    /\ UNCHANGED <<input, fn, key, events, events_capacity, fCount, fFind,
                   child_location, fSub, emitter, emitted, buffer, fElem, rows,
                   err, report, failure>>

(***************************************************************************)
(* yaml_sequence_length after the parse: the type test, then the count.    *)
(***************************************************************************)
NotASequence ==
    [message |-> <<"ERROR: cannot get sequence length of a non-sequence">>,
     position |-> NoMark]

yaml_sequence_length_check ==
    /\ pc = "parsed"
    /\ fn = "yaml_sequence_length"
    /\ IF TypeReadable(events)
       THEN /\ type' = yaml_get_object_type(events)
            /\ IF IsSequenceType(type')
               THEN /\ pc' = "yaml_count_array_size"
                    /\ fCount' = [i |-> 2, scope |-> 0, count |-> 0]
                    /\ UNCHANGED <<err, report>>
               ELSE /\ pc' = "error"
                    /\ err' = "ERRCODE_INVALID_PARAMETER_VALUE"
                    /\ report' = NotASequence
                    /\ fCount' = fCount
       ELSE /\ pc' = "crash"
            /\ UNCHANGED <<type, fCount, err, report>>
    /\ UNCHANGED <<input, fn, key, events, events_capacity, fFind,
                   child_location, fSub, emitter, emitted, buffer, fElem, rows,
                   result, context, failure>>

\* One iteration of the loop of yaml_count_array_size; the break on scope 0
\* and the end of the loop both return the count to yaml_sequence_length,
\* which frees the context and returns it.
yaml_count_array_size ==
    /\ pc = "yaml_count_array_size"
    /\ IF fCount.i < Len(events)
       THEN LET r == CountEvent(Ev(events, fCount.i), fCount.scope, fCount.count)
            IN  IF r.scope = 0
                THEN /\ fCount' = [i |-> fCount.i, scope |-> r.scope, count |-> r.count]
                     /\ result' = IntResult(r.count)
                     /\ context' = "freed"
                     /\ pc' = "done"
                ELSE /\ fCount' = [i |-> NextIndex(fCount.i), scope |-> r.scope,
                                   count |-> r.count]
                     /\ UNCHANGED <<result, context, pc>>
       ELSE /\ result' = IntResult(fCount.count)
            /\ context' = "freed"
            /\ pc' = "done"
            /\ fCount' = fCount
    /\ UNCHANGED <<input, fn, key, events, events_capacity, type, fFind,
                   child_location, fSub, emitter, emitted, buffer, fElem, rows,
                   err, report, failure>>

(***************************************************************************)
(* yaml_object_field after the parse: the key scan, then the extraction.   *)
(***************************************************************************)
yaml_object_field_find ==
    /\ pc = "parsed"
    /\ fn = "yaml_object_field"
    /\ pc' = "yaml_find_key_on_root"
    /\ fFind' = [i |-> 0, scope |-> -1, kv_toggle |-> 0, compared |-> {}]
    /\ UNCHANGED <<input, fn, key, events, events_capacity, type, fCount,
                   child_location, fSub, emitter, emitted, buffer, fElem, rows,
                   result, context, err, report, failure>>

\* One iteration of the loop of yaml_find_key_on_root, or its return of -1
\* at the end of the events.
yaml_find_key_on_root ==
    /\ pc = "yaml_find_key_on_root"
    /\ IF fFind.i < Len(events)
       THEN LET r == FindEvent(Ev(events, fFind.i), fFind.scope, fFind.kv_toggle, key)
                c == IF r.compared THEN fFind.compared \cup {fFind.i}
                                   ELSE fFind.compared
            IN  IF r.matched
                THEN /\ fFind' = [i |-> fFind.i, scope |-> r.scope,
                                  kv_toggle |-> r.kv_toggle, compared |-> c]
                     /\ child_location' = fFind.i + 1
                     /\ pc' = "yaml_object_field"
                ELSE /\ fFind' = [i |-> NextIndex(fFind.i), scope |-> r.scope,
                                  kv_toggle |-> r.kv_toggle, compared |-> c]
                     /\ UNCHANGED <<child_location, pc>>
       ELSE /\ child_location' = -1
            /\ pc' = "yaml_object_field"
            /\ fFind' = fFind
    /\ UNCHANGED <<input, fn, key, events, events_capacity, type, fCount, fSub,
                   emitter, emitted, buffer, fElem, rows, result, context, err,
                   report, failure>>

\* yaml_get_sub_tree up to its loop: the emitter and the output buffer are
\* set up and the synthetic STREAM-START and DOCUMENT-START are emitted.
SubTreeEnter(location) ==
    /\ fSub' = [location |-> location, i |-> location, scope |-> 0, done |-> 0,
                allocated_bytes |-> OutputBufferSize]
    /\ emitter' = yaml_emitter_emit(yaml_emitter_emit(EmitterInit, StreamStart),
                                    DocumentStart)
    /\ emitted' = <<StreamStart, DocumentStart>>
    /\ buffer' = "live"
    /\ pc' = "yaml_get_sub_tree"

\* yaml_object_field with the location found: no key, SQL null; a key, the
\* sub tree at the location.
yaml_object_field_return ==
    /\ pc = "yaml_object_field"
    /\ IF child_location # -1
       THEN /\ SubTreeEnter(child_location)
            /\ UNCHANGED <<result, context>>
       ELSE /\ result' = NullResult
            /\ context' = "freed"
            /\ pc' = "done"
            /\ UNCHANGED <<fSub, emitter, emitted, buffer>>
    /\ UNCHANGED <<input, fn, key, events, events_capacity, type, fCount, fFind,
                   child_location, fElem, rows, err, report, failure>>

\* yaml_get_sub_tree called on the parsed context at any location.
yaml_get_sub_tree ==
    /\ pc = "parsed"
    /\ fn = "yaml_get_sub_tree"
    /\ \E location \in 0..Len(events) : SubTreeEnter(location)
    /\ UNCHANGED <<input, fn, key, events, events_capacity, type, fCount, fFind,
                   child_location, fElem, rows, result, context, err, report,
                   failure>>

\* Mutant of GrowBuffer: the buffer is grown by the low-water mark only when
\* it is full.
GrowBuffer_WhenFull(allocated_bytes, size_written) ==
    IF allocated_bytes - size_written < 1
    THEN allocated_bytes + LowWaterMark ELSE allocated_bytes

\* The growth check at the end of an iteration: the size of the buffer after it.
GrowBuffer(allocated_bytes, size_written) ==
    IF allocated_bytes - size_written < LowWaterMark
    THEN allocated_bytes * 2 ELSE allocated_bytes

\* Mutant of EventsAfterEmit: the loop hands the emitter the parsed event
\* itself, which the emitter deletes.
EventsAfterEmit_OriginalHanded(s, i) ==
    [s EXCEPT ![i + 1] = Event("YAML_NO_EVENT")]

\* context->events after yaml_emitter_emit(&emitter, &event_copy) for the
\* event at index i.  The emitter owns and deletes the event it is handed;
\* that is event_copy, which yaml_*_event_initialize built with its own
\* copies of the anchor, tag and value, so events[i] is as it was.
EventsAfterEmit(s, i) == s

\* One iteration of the loop of yaml_get_sub_tree: the event is copied and
\* emitted, and the buffer is grown if little of it is free.  A copy that
\* is not built and an event the emitter does not take raise the error
\* print_emitter_error makes of emitter.error.
yaml_get_sub_tree_loop ==
    /\ pc = "yaml_get_sub_tree"
    /\ fSub.i < Len(events)
    /\ fSub.done = 0
    /\ \E fault \in Faults :
        LET e  == Ev(events, fSub.i)
            r  == SubTreeEvent(e, fSub.scope)
            em == IF ~r.emit THEN emitter
                  ELSE IF fault = "emit_memory"
                  THEN [emitter EXCEPT !.error = "YAML_MEMORY_ERROR"]
                  ELSE yaml_emitter_emit(emitter, EventCopy(e))
            allocated == GrowBuffer(fSub.allocated_bytes, em.size_written)
        IN  /\ fault # "none" => r.emit
            /\ IF fault = "copy"
               THEN /\ pc' = "error"
                    /\ err' = "ERRCODE_INTERNAL_ERROR"
                    /\ report' = print_emitter_error(emitter.error)
                    /\ failure' = "Memory"
                    /\ fSub' = [fSub EXCEPT !.scope = r.scope]
                    /\ UNCHANGED <<emitter, emitted, events>>
               ELSE /\ emitted' = IF r.emit THEN Append(emitted, EventCopy(e))
                                            ELSE emitted
                    /\ events' = IF r.emit THEN EventsAfterEmit(events, fSub.i)
                                           ELSE events
                    /\ IF em.error # "YAML_NO_ERROR"
                       THEN /\ emitter' = em
                            /\ pc' = "error"
                            /\ err' = "ERRCODE_INTERNAL_ERROR"
                            /\ report' = print_emitter_error(em.error)
                            /\ failure' = FailureKind(em.error)
                            /\ fSub' = [fSub EXCEPT !.scope = r.scope]
                       ELSE /\ emitter' = [em EXCEPT !.size = allocated]
                            /\ fSub' = [fSub EXCEPT !.i = NextIndex(fSub.i),
                                                    !.scope = r.scope,
                                                    !.done = r.done,
                                                    !.allocated_bytes = allocated]
                            /\ UNCHANGED <<pc, err, report, failure>>
    /\ UNCHANGED <<input, fn, key, events_capacity, type, fCount, fFind,
                   child_location, buffer, fElem, rows, result, context>>

\* yaml_get_sub_tree after its loop: the synthetic DOCUMENT-END and STREAM-END
\* are emitted and the emitter is flushed; nothing written gives NULL, and
\* otherwise the bytes after the prologue are the text returned.  The buffer
\* is freed.  yaml_object_field frees the context and returns what it got;
\* yaml_sequence_elements puts it in its result set and goes on.
yaml_get_sub_tree_return ==
    /\ pc = "yaml_get_sub_tree"
    /\ ~(fSub.i < Len(events) /\ fSub.done = 0)
    /\ LET em == yaml_emitter_flush(
                    yaml_emitter_emit(yaml_emitter_emit(emitter, DocumentEnd),
                                      StreamEnd))
           em_events == emitted \o <<DocumentEnd, StreamEnd>>
           text == IF em.size_written = 0 THEN NullResult
                   ELSE [DocResult(SubSeq(em_events, 3, Len(em_events)))
                            EXCEPT !.bytes = em.size_written - PrologueBytes]
       IN  /\ emitter' = em
           /\ emitted' = em_events
           /\ IF em.error # "YAML_NO_ERROR"
              THEN /\ pc' = "error"
                   /\ err' = "ERRCODE_INTERNAL_ERROR"
                   /\ report' = print_emitter_error(em.error)
                   /\ failure' = FailureKind(em.error)
                   /\ UNCHANGED <<result, context, buffer, rows>>
              ELSE /\ buffer' = "freed"
                   /\ UNCHANGED <<err, report, failure>>
                   /\ IF fn = "yaml_sequence_elements"
                      THEN /\ rows' = Append(rows, text)
                           /\ pc' = "yaml_sequence_elements"
                           /\ UNCHANGED <<result, context>>
                      ELSE /\ result' = text
                           /\ context' = IF fn = "yaml_get_sub_tree"
                                         THEN context ELSE "freed"
                           /\ pc' = "done"
                           /\ rows' = rows
    /\ UNCHANGED <<input, fn, key, events, events_capacity, type, fCount, fFind,
                   child_location, fSub, fElem>>

(***************************************************************************)
(* yaml_sequence_elements after the parse: the type test, then the loop    *)
(* over the events from index 3.                                           *)
(***************************************************************************)
yaml_sequence_elements_check ==
    /\ pc = "parsed"
    /\ fn = "yaml_sequence_elements"
    /\ IF TypeReadable(events)
       THEN /\ type' = yaml_get_object_type(events)
            /\ IF IsSequenceType(type')
               THEN /\ pc' = "yaml_sequence_elements"
                    /\ fElem' = [i |-> 3, scope |-> 0]
                    /\ UNCHANGED <<err, report>>
               ELSE /\ pc' = "error"
                    /\ err' = "ERRCODE_INVALID_PARAMETER_VALUE"
                    /\ report' = NotASequence
                    /\ fElem' = fElem
       ELSE /\ pc' = "crash"
            /\ UNCHANGED <<type, fElem, err, report>>
    /\ UNCHANGED <<input, fn, key, events, events_capacity, fCount, fFind,
                   child_location, fSub, emitter, emitted, buffer, rows, result,
                   context, failure>>

\* One iteration of the loop of yaml_sequence_elements on event e: what
\* becomes of scope, whether yaml_get_sub_tree is called at the event, and
\* whether the value of the event is put in the result set as it is.
ElementEvent(e, scope) ==
    CASE e.type \in {"YAML_SEQUENCE_START_EVENT", "YAML_MAPPING_START_EVENT"} ->
            [scope |-> scope + 1, sub_tree |-> scope = 0, value |-> FALSE]
      [] e.type \in {"YAML_SEQUENCE_END_EVENT", "YAML_MAPPING_END_EVENT"} ->
            [scope |-> scope - 1, sub_tree |-> FALSE, value |-> FALSE]
      [] e.type = "YAML_SCALAR_EVENT" ->
            [scope |-> scope, sub_tree |-> FALSE, value |-> scope = 0]
      [] OTHER ->
            [scope |-> scope, sub_tree |-> FALSE, value |-> FALSE]

\* The loop of yaml_sequence_elements: an iteration, or after the last event
\* the release of the context and the return (the rows are in the result
\* set, the function's own value is null).
yaml_sequence_elements_loop ==
    /\ pc = "yaml_sequence_elements"
    /\ IF fElem.i < Len(events)
       THEN LET e == Ev(events, fElem.i)
                r == ElementEvent(e, fElem.scope)
            IN  /\ fElem' = [i |-> NextIndex(fElem.i), scope |-> r.scope]
                /\ IF r.sub_tree
                   THEN /\ SubTreeEnter(fElem.i)
                        /\ rows' = rows
                   ELSE /\ rows' = IF r.value THEN Append(rows, TextResult(e.value))
                                              ELSE rows
                        /\ UNCHANGED <<fSub, emitter, emitted, buffer, pc>>
                /\ UNCHANGED <<result, context>>
       ELSE /\ result' = NullResult
            /\ context' = "freed"
            /\ pc' = "done"
            /\ UNCHANGED <<fElem, rows, fSub, emitter, emitted, buffer>>
    /\ UNCHANGED <<input, fn, key, events, events_capacity, type, fCount, fFind,
                   child_location, err, report, failure>>

Next ==
    \/ yaml_typeof
    \/ yaml_sequence_length
    \/ yaml_object_field
    \/ yaml_sequence_elements
    \/ yaml_get_sub_tree_call
    \/ yaml_get_sub_tree
    \/ pg_parse_yaml
    \/ yaml_typeof_return
    \/ yaml_sequence_length_check
    \/ yaml_count_array_size
    \/ yaml_object_field_find
    \/ yaml_find_key_on_root
    \/ yaml_object_field_return
    \/ yaml_get_sub_tree_loop
    \/ yaml_get_sub_tree_return
    \/ yaml_sequence_elements_check
    \/ yaml_sequence_elements_loop

Spec == Init /\ [][Next]_vars

(***************************************************************************)
(* The structure of an event sequence, read off the events themselves (not *)
(* by the scans above): where a node ends and which nodes a container      *)
(* holds.  The claims are stated against these.                            *)
(***************************************************************************)
IsLeaf(e)  == e.type \in {"YAML_SCALAR_EVENT", "YAML_ALIAS_EVENT"}
IsStart(e) == e.type \in {"YAML_SEQUENCE_START_EVENT", "YAML_MAPPING_START_EVENT"}
IsEnd(e)   == e.type \in {"YAML_SEQUENCE_END_EVENT", "YAML_MAPPING_END_EVENT"}

EndOf(e) == IF e.type = "YAML_SEQUENCE_START_EVENT"
            THEN "YAML_SEQUENCE_END_EVENT" ELSE "YAML_MAPPING_END_EVENT"

\* NodeEnd(s, i): the index of the last event of the node that starts at
\* index i, -1 when no well-formed node starts there.  ListEnd(s, j, r, n):
\* the index of the End closing the container opened at r, whose next child
\* starts at j and which has n children before j.
RECURSIVE NodeEnd(_, _), ListEnd(_, _, _, _)
NodeEnd(s, i) ==
    IF i < 0 \/ i >= Len(s) THEN -1
    ELSE IF IsLeaf(Ev(s, i)) THEN i
    ELSE IF IsStart(Ev(s, i)) THEN ListEnd(s, i + 1, i, 0)
    ELSE -1

ListEnd(s, j, r, n) ==
    IF j >= Len(s) THEN -1
    ELSE IF Ev(s, j).type = EndOf(Ev(s, r))
    THEN (IF Ev(s, r).type = "YAML_MAPPING_START_EVENT" /\ n % 2 = 1 THEN -1 ELSE j)
    ELSE IF NodeEnd(s, j) = -1 THEN -1
    ELSE ListEnd(s, NodeEnd(s, j) + 1, r, n + 1)

\* The indices of the first events of the direct children of the container
\* opened at r, in document order.
RECURSIVE ChildrenFrom(_, _)
ChildrenFrom(s, j) ==
    IF j >= Len(s) \/ NodeEnd(s, j) = -1 THEN <<>>
    ELSE <<j>> \o ChildrenFrom(s, NodeEnd(s, j) + 1)

Children(s, r) == IF IsStart(Ev(s, r)) THEN ChildrenFrom(s, r + 1) ELSE <<>>

\* A stream of exactly one document whose root is a node.
WellFormedDoc(s) ==
    /\ Len(s) >= 5
    /\ Ev(s, 0).type = "YAML_STREAM_START_EVENT"
    /\ Ev(s, 1).type = "YAML_DOCUMENT_START_EVENT"
    /\ Ev(s, 2).type \in {"YAML_SCALAR_EVENT", "YAML_SEQUENCE_START_EVENT",
                          "YAML_MAPPING_START_EVENT"}
    /\ NodeEnd(s, 2) = Len(s) - 3
    /\ Ev(s, Len(s) - 2).type = "YAML_DOCUMENT_END_EVENT"
    /\ Ev(s, Len(s) - 1).type = "YAML_STREAM_END_EVENT"

\* The parse has succeeded and events holds the whole stream.
ParsedOk == input.error = "YAML_NO_ERROR" /\ events = input.events

HasAlias(s) == \E k \in 1..Len(s) : s[k].type = "YAML_ALIAS_EVENT"

\* What an event is, apart from the flags of its presentation.
Shape(e) == [type |-> e.type, value |-> e.value]

Shapes(s) == [k \in 1..Len(s) |-> Shape(s[k])]

(***************************************************************************)
(* C1.  yaml_count_array_size on a root sequence.                          *)
(***************************************************************************)
\* The direct children of the container at r that are not aliases.
CountedChildren(s, r) ==
    {k \in 1..Len(Children(s, r)) : Ev(s, Children(s, r)[k]).type # "YAML_ALIAS_EVENT"}

\* C1: for a well-formed document whose root is a sequence of n direct
\* elements, yaml_sequence_length ends with the count n returned by
\* yaml_count_array_size.
C1_CountIsDirectElements ==
    (fn = "yaml_sequence_length" /\ pc = "done" /\ WellFormedDoc(events))
        => result.int = Len(Children(events, 2))

\* What the code does count: the direct elements that are scalars or
\* containers, each once; a direct element that is an alias is passed over.
C1_CountsScalarsAndContainers ==
    (fn = "yaml_sequence_length" /\ pc = "done" /\ WellFormedDoc(events))
        => result.int = Cardinality(CountedChildren(events, 2))

(***************************************************************************)
(* C2, C3, C4.  yaml_find_key_on_root.                                     *)
(***************************************************************************)
\* The scan of yaml_find_key_on_root has returned.
FindReturned ==
    /\ fn = "yaml_object_field"
    /\ ParsedOk
    /\ pc \in {"yaml_object_field", "yaml_get_sub_tree", "done", "error"}

\* The scalar keys of the root mapping: the values of the scalars that are
\* the 1st, 3rd, ... direct child of a root that is a mapping.
TopLevelKeyIndices(s) ==
    IF Ev(s, 2).type = "YAML_MAPPING_START_EVENT"
    THEN {Children(s, 2)[k] : k \in {m \in 1..Len(Children(s, 2)) : m % 2 = 1}}
    ELSE {}

\* The same for the mapping opened at r.
TopLevelKeyIndicesAt(s, r) ==
    IF Ev(s, r).type = "YAML_MAPPING_START_EVENT"
    THEN {Children(s, r)[k] : k \in {m \in 1..Len(Children(s, r)) : m % 2 = 1}}
    ELSE {}

TopLevelKeys(s) ==
    {Ev(s, i).value : i \in {j \in TopLevelKeyIndices(s) :
                                Ev(s, j).type = "YAML_SCALAR_EVENT"}}

\* C2: a scalar compared with the key is reported as the match (the scan
\* returns the index after it) if and only if it equals the key, in length
\* and content.
C2_MatchIffEqual ==
    (fn = "yaml_object_field" /\ ParsedOk)
        => \A i \in fFind.compared :
              (child_location = i + 1) <=> (Ev(events, i).value = key)

\* C3: for a parsed document and a key that is no top-level key of its root,
\* the scan returns -1, yaml_get_sub_tree is not entered, no error is raised
\* and yaml_object_field returns SQL null.
C3_AbsentKeyGivesNull ==
    (FindReturned /\ WellFormedDoc(events) /\ key \notin TopLevelKeys(events))
        => /\ child_location = -1
           /\ pc \in {"yaml_object_field", "done"}
           /\ err = "none"
           /\ (pc = "done" => result = NullResult)

\* The number of containers open at index i, the root one included: the
\* Starts less the Ends among the events 2 .. i-1.
Depth(s, i) ==
    Cardinality({j \in 2..(i - 1) : IsStart(Ev(s, j))})
      - Cardinality({j \in 2..(i - 1) : IsEnd(Ev(s, j))})

IsNodeStart(e) ==
    e.type \in {"YAML_SCALAR_EVENT", "YAML_SEQUENCE_START_EVENT",
                "YAML_MAPPING_START_EVENT"}

\* The events of the node that starts at index i.
NodeEvents(s, i) == SubSeq(s, i + 1, NodeEnd(s, i) + 1)

\* The stream that holds the node at index i alone.
NodeStream(s, i) ==
    <<StreamStart, DocumentStart>> \o NodeEvents(s, i) \o <<DocumentEnd, StreamEnd>>

\* yaml_get_sub_tree has returned or raised.
SubTreeOver == pc \in {"done", "error"}

\* C5: when the scan matches a key at index i of a root mapping, it returns
\* i + 1, the first event of the value paired with that key, no earlier key
\* of the mapping matches, and yaml_get_sub_tree at that index emits exactly
\* the events of the value node: the document returned is that node.
C5_ValueOfMatchedKeyExtracted ==
    (/\ FindReturned
     /\ WellFormedDoc(events)
     /\ failure # "Memory"
     /\ child_location # -1
     /\ child_location - 1 \in TopLevelKeyIndices(events))
        => /\ \A j \in TopLevelKeyIndices(events) :
                 (Ev(events, j).type = "YAML_SCALAR_EVENT"
                    /\ KeyMatches(Ev(events, j).value, key)) => j >= child_location - 1
           /\ SubTreeOver =>
                 /\ pc = "done"
                 /\ Shapes(emitted) = Shapes(NodeStream(events, child_location))

\* C6: for a well-formed document and a start index that holds a Scalar, a
\* SequenceStart or a MappingStart, yaml_get_sub_tree emits STREAM-START,
\* DOCUMENT-START, the events of the node from the start index to its end,
\* none skipped and none after it, then DOCUMENT-END and STREAM-END.
C6_EmitsExactlyTheNode ==
    (/\ fn = "yaml_get_sub_tree"
     /\ WellFormedDoc(events)
     /\ failure # "Memory"
     /\ fSub.location < Len(events)
     /\ IsNodeStart(Ev(events, fSub.location))
     /\ SubTreeOver)
        => /\ pc = "done"
           /\ Shapes(emitted) = Shapes(NodeStream(events, fSub.location))

\* What the code does emit when the emitter accepts it: the events of the
\* node less its aliases, which the loop passes over; on a node that holds
\* no alias, exactly the node.
WithoutAliases(s) == SelectSeq(s, LAMBDA e : e.type # "YAML_ALIAS_EVENT")

C6_EmitsTheNodeLessAliases ==
    (/\ fn = "yaml_get_sub_tree"
     /\ WellFormedDoc(events)
     /\ failure # "Memory"
     /\ fSub.location < Len(events)
     /\ IsNodeStart(Ev(events, fSub.location))
     /\ pc = "done")
        => Shapes(emitted) =
              Shapes(<<StreamStart, DocumentStart>>
                       \o WithoutAliases(NodeEvents(events, fSub.location))
                       \o <<DocumentEnd, StreamEnd>>)

\* C7: for a well-formed document, what yaml_get_sub_tree emits at the root
\* (index 2) is again a stream of one document with one root node, and
\* yaml_get_object_type gives it the type it gives the original.
C7_RootRoundTrip ==
    (/\ fn = "yaml_get_sub_tree"
     /\ WellFormedDoc(events)
     /\ failure # "Memory"
     /\ fSub.location = 2
     /\ SubTreeOver)
        => /\ pc = "done"
           /\ WellFormedDoc(emitted)
           /\ yaml_get_object_type(emitted) = yaml_get_object_type(events)

\* The same on the documents that hold no alias, when no write fails.
C7_RootRoundTripWithoutAlias ==
    (/\ fn = "yaml_get_sub_tree"
     /\ WellFormedDoc(events)
     /\ failure \notin {"Memory", "Writer"}
     /\ ~HasAlias(events)
     /\ fSub.location = 2
     /\ SubTreeOver)
        => /\ pc = "done"
           /\ WellFormedDoc(emitted)
           /\ yaml_get_object_type(emitted) = yaml_get_object_type(events)

(***************************************************************************)
(* C8, C9.  yaml_get_object_type and yaml_typeof.                          *)
(***************************************************************************)
\* The name of the type of a node by its first event.
TypeNameOf(e) ==
    CASE e.type = "YAML_SCALAR_EVENT"         -> TextScalar
      [] e.type = "YAML_SEQUENCE_START_EVENT" -> TextSequence
      [] e.type = "YAML_MAPPING_START_EVENT"  -> TextMapping
      [] OTHER                                -> <<>>

\* C8: the text yaml_typeof returns is "scalar", "sequence" or "mapping" as
\* the event at index 2 is a Scalar, a SequenceStart or a MappingStart, and
\* it is the text returned for every other stream with the same event at
\* index 2, whatever its events at index 3 and later.
C8_TypeFromIndex2Only ==
    (fn = "yaml_typeof" /\ pc = "done")
        => /\ IsNodeStart(Ev(events, 2)) => result.text = TypeNameOf(Ev(events, 2))
           /\ \A d \in SingleDocs :
                 Ev(d, 2) = Ev(events, 2) => yaml_get_object_type(d) = result.text

\* C8's case: the type of a root sequence that holds a nested container.
C8_Witness ==
    /\ fn = "yaml_typeof"
    /\ pc = "done"
    /\ Ev(events, 2).type = "YAML_SEQUENCE_START_EVENT"
    /\ Ev(events, 3).type = "YAML_MAPPING_START_EVENT"
    /\ result = TextResult(TextSequence)

\* C9: when the event at index 2 is none of Scalar, SequenceStart and
\* MappingStart, the type query does not complete with a result value.
C9_NonNodeRootFails ==
    (fn = "yaml_typeof" /\ pc = "done") => IsNodeStart(Ev(events, 2))

\* C9 as amended: in that case no failure is raised; yaml_get_object_type
\* returns the text "Unknown Type", which is none of the three type names,
\* and yaml_typeof completes with that text as its result.
C9_UnknownTypeSentinel ==
    (/\ fn = "yaml_typeof"
     /\ ParsedOk
     /\ TypeReadable(events)
     /\ ~IsNodeStart(Ev(events, 2))
     /\ pc \in {"done", "error", "crash"})
        => /\ pc = "done"
           /\ err = "none"
           /\ result = TextResult(TextUnknown)
           /\ result.text \notin {TextScalar, TextSequence, TextMapping}

\* C9's case: yaml_typeof has returned on a document whose root is an alias.
C9_Witness ==
    /\ fn = "yaml_typeof"
    /\ pc = "done"
    /\ Ev(events, 2).type = "YAML_ALIAS_EVENT"
    /\ result.kind = "text"

(***************************************************************************)
(* C10.  yaml_sequence_length.                                             *)
(***************************************************************************)
\* C10: on a root that is not a sequence, yaml_sequence_length raises the
\* not-a-sequence error with yaml_count_array_size never entered and no
\* count returned; on a root sequence it raises no error and what it
\* returns is an integer >= 0.
C10_NotASequenceBeforeCount ==
    (fn = "yaml_sequence_length" /\ ParsedOk /\ TypeReadable(events))
        => IF Ev(events, 2).type # "YAML_SEQUENCE_START_EVENT"
           THEN /\ pc \in {"parsed", "error"}
                /\ pc = "error" => err = "ERRCODE_INVALID_PARAMETER_VALUE"
                /\ fCount = NoCount
                /\ result = NoResult
           ELSE /\ pc \in {"parsed", "yaml_count_array_size", "done"}
                /\ err = "none"
                /\ pc = "done" => (result.kind = "int32" /\ result.int >= 0)

\* C10's case: the error raised on a root mapping, the count not started.
C10_Witness ==
    /\ fn = "yaml_sequence_length"
    /\ pc = "error"
    /\ err = "ERRCODE_INVALID_PARAMETER_VALUE"
    /\ Ev(events, 2).type = "YAML_MAPPING_START_EVENT"
    /\ fCount = NoCount

(***************************************************************************)
(* C11.  pg_parse_yaml.                                                    *)
(***************************************************************************)
\* The call has not left pg_parse_yaml_or_ereport with success.
InParse == pc \in {"idle", "pg_parse_yaml"}

\* C11: a call goes past pg_parse_yaml only when the parser failed nowhere,
\* with every event of the text stored in parse order and STREAM-END the
\* last; a text on which a parser step fails ends in the error
\* yaml_ereport_error reports for the parser's error and never goes past the
\* parse.  At every step the events stored are the first events_length events
\* of the text, unchanged by the growth of the array, events_length is at
\* most events_capacity, and the capacity is 256 doubled as often as the
\* events stored have needed.
C11_ParseAllOrError ==
    /\ (~InParse /\ pc # "error") =>
          /\ input.error = "YAML_NO_ERROR"
          /\ events = input.events
          /\ events[Len(events)].type = "YAML_STREAM_END_EVENT"
    /\ input.error # "YAML_NO_ERROR" =>
          /\ pc \in {"idle", "pg_parse_yaml", "error"}
          /\ pc = "error" =>
                /\ err = yaml_ereport_error(input.error)
                /\ result = NoResult
                /\ fCount = NoCount /\ fFind = NoFind /\ fSub = NoSub
    /\ events = SubSeq(input.events, 1, Len(events))
    /\ Len(events) <= events_capacity
    /\ pc # "idle" =>
          \E k \in 0..3 :
             /\ events_capacity = InitialCapacity * (2 ^ k)
             /\ k > 0 => Len(events) > InitialCapacity * (2 ^ (k - 1))

\* C11's case: a parse has succeeded on a text of more events than the array
\* first held, after a doubling of the capacity.
C11_Witness ==
    /\ pc = "parsed"
    /\ events = input.events
    /\ Len(events) > InitialCapacity
    /\ events_capacity = 2 * InitialCapacity
    /\ events[Len(events)].type = "YAML_STREAM_END_EVENT"

(***************************************************************************)
(* C12, C13.  The output buffer of yaml_get_sub_tree.                      *)
(***************************************************************************)
\* What is free of the output buffer.
FreeBytes == emitter.size - emitter.size_written

\* C12: whenever yaml_get_sub_tree is about to emit an event, at least the
\* low-water mark of 16384 bytes of the output buffer is free, what is
\* written never exceeds the size of the buffer, and no write of an event,
\* whatever its size, fails for lack of space in the buffer.
C12_NoWriteLacksSpace ==
    /\ pc = "yaml_get_sub_tree" => FreeBytes >= LowWaterMark
    /\ emitter.size_written <= emitter.size
    /\ failure # "Writer"

\* What the growth check does give: the free space before every emit call,
\* and no write beyond the buffer.
C12_FreeBeforeEveryEmit ==
    /\ pc = "yaml_get_sub_tree" =>
          /\ FreeBytes >= LowWaterMark
          /\ emitter.size = fSub.allocated_bytes
    /\ emitter.size_written <= emitter.size

\* The number of bytes an emitter with room for all of them writes for the
\* events s[k], s[k + 1], ... when it is in state em before them.
RECURSIVE BytesFrom(_, _, _)
BytesFrom(s, k, em) ==
    IF k > Len(s) THEN 0
    ELSE LET nxt == EmitterState(em, s[k])
         IN  IF nxt.error # "YAML_NO_ERROR" THEN 0
             ELSE EventBytes(em, s[k]) + BytesFrom(s, k + 1, nxt)

BytesOf(s) == BytesFrom(s, 1, EmitterInit)

\* yaml_get_sub_tree runs on a node of a well-formed document that holds no
\* alias, and no allocation fails.
SubTreeOnPlainNode ==
    /\ fn = "yaml_get_sub_tree"
    /\ pc \in {"yaml_get_sub_tree", "done", "error"}
    /\ WellFormedDoc(events)
    /\ ~HasAlias(events)
    /\ fSub.location < Len(events)
    /\ IsNodeStart(Ev(events, fSub.location))
    /\ failure # "Memory"

\* C13: while yaml_get_sub_tree runs, through any growth of the buffer, the
\* bytes given to the emitter so far are all held, written or waiting in the
\* emitter, and what is written does not exceed the size of the buffer; when
\* it ends it has returned a text, which is all the bytes emitted after the
\* 14 bytes of the prologue, for a node of any depth and a scalar of any
\* length.
C13_TextIsAllEmittedBytes ==
    SubTreeOnPlainNode =>
        /\ emitter.size_written <= emitter.size
        /\ emitter.size_written + emitter.pending = BytesOf(emitted)
        /\ SubTreeOver =>
              /\ pc = "done"
              /\ emitter.pending = 0
              /\ result.kind = "text"
              /\ result.bytes = BytesOf(emitted) - PrologueBytes
              /\ Shapes(emitted) = Shapes(NodeStream(events, fSub.location))

\* What holds of the buffer: the same, as long as no write has failed.
C13_TextIsAllEmittedBytesUnlessWriteFails ==
    (SubTreeOnPlainNode /\ failure # "Writer") =>
        /\ emitter.size_written <= emitter.size
        /\ emitter.size_written + emitter.pending = BytesOf(emitted)
        /\ SubTreeOver =>
              /\ pc = "done"
              /\ emitter.pending = 0
              /\ result.kind = "text"
              /\ result.bytes = BytesOf(emitted) - PrologueBytes
              /\ Shapes(emitted) = Shapes(NodeStream(events, fSub.location))

\* A text returned after the buffer has been doubled twice.
C13_GrownTwice ==
    /\ SubTreeOnPlainNode
    /\ pc = "done"
    /\ fSub.allocated_bytes = 4 * OutputBufferSize
    /\ result.bytes > 2 * OutputBufferSize

(***************************************************************************)
(* C14.  Release of the context and of the output buffer.                  *)
(***************************************************************************)
SqlFunctions ==
    {"yaml_typeof", "yaml_sequence_length", "yaml_object_field",
     "yaml_sequence_elements"}

\* C14: when a call of yaml_typeof, yaml_sequence_length, yaml_object_field
\* or yaml_sequence_elements has ended, by a return or by a raised error,
\* cleanYamlContext has run on its context and the output buffer of
\* yaml_get_sub_tree, if one was allocated, has been freed.
C14_ReleasedOnEveryExit ==
    (fn \in SqlFunctions /\ pc \in {"done", "error"})
        => /\ context = "freed"
           /\ buffer \in {"none", "freed"}

\* What holds: the release on the exits by a return.
C14_ReleasedOnReturn ==
    (fn \in SqlFunctions /\ pc = "done")
        => /\ context = "freed"
           /\ buffer \in {"none", "freed"}

(***************************************************************************)
(* C15, C16, C20.  yaml_sequence_elements.                                 *)
(***************************************************************************)
\* Row r is the one yaml_sequence_elements makes of the node at index i: the
\* value of a scalar, the document of a container.
RowOfNode(r, s, i) ==
    IF Ev(s, i).type = "YAML_SCALAR_EVENT"
    THEN r.kind = "text" /\ r.doc = <<>> /\ r.text = Ev(s, i).value
    ELSE /\ r.kind = "text"
         /\ Shapes(r.doc) = Shapes(NodeEvents(s, i) \o <<DocumentEnd, StreamEnd>>)

\* yaml_sequence_elements has ended on a well-formed document whose root is
\* a sequence, and no allocation failed.
ElementsOver ==
    /\ fn = "yaml_sequence_elements"
    /\ pc \in {"done", "error"}
    /\ ParsedOk
    /\ WellFormedDoc(events)
    /\ Ev(events, 2).type = "YAML_SEQUENCE_START_EVENT"
    /\ failure # "Memory"

\* C15: for a well-formed document whose root is a sequence of n direct
\* elements, yaml_sequence_elements returns with n rows in its result set,
\* the k-th made of the k-th direct element; what nested containers hold
\* makes no row of its own.
C15_OneRowPerElement ==
    ElementsOver =>
        /\ pc = "done"
        /\ Len(rows) = Len(Children(events, 2))
        /\ \A k \in 1..Len(rows) : RowOfNode(rows[k], events, Children(events, 2)[k])

\* What holds: the same on the documents that hold no alias, when no write
\* fails.
C15_OneRowPerElementWithoutAlias ==
    (ElementsOver /\ ~HasAlias(events) /\ failure # "Writer") =>
        /\ pc = "done"
        /\ Len(rows) = Len(Children(events, 2))
        /\ \A k \in 1..Len(rows) : RowOfNode(rows[k], events, Children(events, 2)[k])

\* yaml_sequence_elements is past the parse of a document whose root is a
\* mapping.
ElementsOnMapping ==
    /\ fn = "yaml_sequence_elements"
    /\ ParsedOk
    /\ ~InParse
    /\ WellFormedDoc(events)
    /\ Ev(events, 2).type = "YAML_MAPPING_START_EVENT"

\* C16: for a document whose root is a mapping, yaml_sequence_elements raises
\* no error and ends with one row for every entry of the mapping.
C16_MappingRootAccepted ==
    ElementsOnMapping =>
        /\ pc # "error"
        /\ err = "none"
        /\ pc = "done" => 2 * Len(rows) = Len(Children(events, 2))

\* C16 as amended: for a document whose root is a mapping,
\* yaml_sequence_elements raises the not-a-sequence error as soon as it has
\* the type, before any event is scanned, and puts no row in its result set.
C16_MappingRootRefused ==
    ElementsOnMapping =>
        /\ pc \in {"parsed", "error"}
        /\ pc = "error" =>
              /\ err = "ERRCODE_INVALID_PARAMETER_VALUE"
              /\ report = NotASequence
        /\ rows = <<>>
        /\ fElem = NoElem
        /\ fSub = NoSub
        /\ result = NoResult

\* C16's case: the error raised on a mapping that has an entry.
C16_Witness ==
    /\ ElementsOnMapping
    /\ Len(Children(events, 2)) >= 2
    /\ pc = "error"
    /\ err = "ERRCODE_INVALID_PARAMETER_VALUE"
    /\ rows = <<>>

(***************************************************************************)
(* C17.  The report of a syntax error.                                     *)
(***************************************************************************)
\* A syntax error has been raised by pg_parse_yaml_or_ereport.
SyntaxErrorRaised ==
    /\ pc = "error"
    /\ input.error \in {"YAML_SCANNER_ERROR", "YAML_PARSER_ERROR"}
    /\ err = "ERRCODE_INVALID_TEXT_REPRESENTATION"

\* C17: the error raised for a text the parser fails on carries the parser's
\* problem message and the position of the failure (parser.problem_mark).
C17_SyntaxErrorCarriesPosition ==
    SyntaxErrorRaised =>
        /\ \E k \in 1..Len(report.message) : report.message[k] = input.problem
        /\ report.position = input.problem_mark

\* What holds: the message is carried, with the parser's context.
C17_SyntaxErrorCarriesMessage ==
    SyntaxErrorRaised =>
        report.message = <<input.problem, " : ", input.context>>

(***************************************************************************)
(* C18.  The failures inside yaml_get_sub_tree.                            *)
(***************************************************************************)
\* The kind an error report names.
ReportedKind(r) ==
    CASE r.message = <<"Memory error: Not enough memory for emitting">> -> "Memory"
      [] r.message = <<"Writer error">>  -> "Writer"
      [] r.message = <<"Emitter error">> -> "Emitter"
      [] OTHER -> "none"

\* C18: a failure inside yaml_get_sub_tree (an event copy that cannot be
\* built, a write that fails, an event the emitter refuses) ends the call at
\* once in an error that names the kind of the failure, Memory, Writer or
\* Emitter, and no text is returned.
C18_FailureKindPreserved ==
    failure # "none" =>
        /\ pc = "error"
        /\ result = NoResult
        /\ ReportedKind(report) = failure

\* What holds: the same for the failures of yaml_emitter_emit, which set
\* emitter.error.
C18_EmitFailureKindPreserved ==
    (failure # "none" /\ emitter.error # "YAML_NO_ERROR") =>
        /\ pc = "error"
        /\ result = NoResult
        /\ ReportedKind(report) = failure

(***************************************************************************)
(* C19.  yaml_get_sub_tree where there is no node.                         *)
(***************************************************************************)
\* yaml_get_sub_tree has ended, called past the last event or on the
\* DOCUMENT-END or STREAM-END of a well-formed document.
SubTreeOverOnNoNode ==
    /\ fn = "yaml_get_sub_tree"
    /\ ParsedOk
    /\ WellFormedDoc(events)
    /\ pc \in {"done", "error"}
    /\ \/ fSub.location >= Len(events)
       \/ Ev(events, fSub.location).type \in {"YAML_DOCUMENT_END_EVENT",
                                             "YAML_STREAM_END_EVENT"}

\* C19: called where there is no node, yaml_get_sub_tree copies no event,
\* raises no error and returns NULL, not an empty text.
C19_NoNodeGivesNull ==
    SubTreeOverOnNoNode =>
        /\ emitted = <<StreamStart, DocumentStart, DocumentEnd, StreamEnd>>
        /\ pc = "done"
        /\ err = "none"
        /\ result = NullResult

\* What holds: no event of the document is copied.
C19_NoNodeCopiesNothing ==
    SubTreeOverOnNoNode =>
        emitted = <<StreamStart, DocumentStart, DocumentEnd, StreamEnd>>

(***************************************************************************)
(* C20.  The rows of yaml_sequence_elements and yaml_get_sub_tree.         *)
(***************************************************************************)
\* What yaml_get_sub_tree returns when called at a location of the events s
\* and no allocation fails: the loop, then the closing events and the text
\* (ok is FALSE when it raises an error).
RECURSIVE SubTreeLoop(_, _, _, _, _, _)
SubTreeLoop(s, i, scope, done, em, out) ==
    IF i < Len(s) /\ done = 0
    THEN LET e   == Ev(s, i)
             r   == SubTreeEvent(e, scope)
             em2 == IF r.emit THEN yaml_emitter_emit(em, EventCopy(e)) ELSE em
         IN  IF em2.error # "YAML_NO_ERROR" THEN [ok |-> FALSE, text |-> NoResult]
             ELSE SubTreeLoop(s, NextIndex(i), r.scope, r.done,
                              [em2 EXCEPT !.size = GrowBuffer(em.size, em2.size_written)],
                              IF r.emit THEN Append(out, EventCopy(e)) ELSE out)
    ELSE LET fin == yaml_emitter_flush(
                       yaml_emitter_emit(yaml_emitter_emit(em, DocumentEnd), StreamEnd))
         IN  IF fin.error # "YAML_NO_ERROR" THEN [ok |-> FALSE, text |-> NoResult]
             ELSE IF fin.size_written = 0 THEN [ok |-> TRUE, text |-> NullResult]
             ELSE [ok |-> TRUE,
                   text |-> [DocResult(out \o <<DocumentEnd, StreamEnd>>)
                               EXCEPT !.bytes = fin.size_written - PrologueBytes]]

SubTreeAt(s, location) ==
    SubTreeLoop(s, location, 0, 0,
                yaml_emitter_emit(yaml_emitter_emit(EmitterInit, StreamStart),
                                  DocumentStart),
                <<>>)

\* The characters the emitter writes, after the prologue, for the document of
\* one scalar: the value, between double quotes when the style is the
\* double-quoted one, and the line break that ends the document.
ScalarDocumentText(e) ==
    (IF e.style = 3 THEN <<34>> \o e.value \o <<34>> ELSE e.value) \o <<10>>

\* The characters of a returned text that is the value of a scalar or the
\* document of one scalar.
TextChars(r) ==
    IF r.doc = <<>> THEN r.text ELSE ScalarDocumentText(r.doc[1])

\* Two returned texts are the same text: the same bytes.  Two documents are
\* compared by the events they were emitted from.
SameText(r1, r2) ==
    /\ r1.kind = r2.kind
    /\ r1.bytes = r2.bytes
    /\ IF r1.doc # <<>> /\ r2.doc # <<>>
       THEN r1.doc = r2.doc
       ELSE /\ \A r \in {r1, r2} : r.doc # <<>> => r.doc[1].type = "YAML_SCALAR_EVENT"
            /\ TextChars(r1) = TextChars(r2)

\* yaml_sequence_elements has returned with a row for every direct element
\* of a root sequence that holds no alias.
ElementsDone ==
    /\ ElementsOver
    /\ ~HasAlias(events)
    /\ pc = "done"
    /\ Len(rows) = Len(Children(events, 2))

\* C20: the row yaml_sequence_elements makes of a direct element of a root
\* sequence, scalar or container, is the text yaml_get_sub_tree returns when
\* called at the index of the first event of that element.
C20_RowIsSubTreeText ==
    ElementsDone =>
        \A k \in 1..Len(rows) :
            LET sub == SubTreeAt(events, Children(events, 2)[k])
            IN  sub.ok /\ SameText(rows[k], sub.text)

\* What holds: the same for the elements that are containers.
C20_ContainerRowIsSubTreeText ==
    ElementsDone =>
        \A k \in 1..Len(rows) :
            LET i   == Children(events, 2)[k]
                sub == SubTreeAt(events, i)
            IN  Ev(events, i).type # "YAML_SCALAR_EVENT" =>
                    sub.ok /\ SameText(rows[k], sub.text)

\* A row made of a container.
C20_ContainerRow ==
    /\ ElementsDone
    /\ \E k \in 1..Len(rows) : rows[k].doc # <<>>

(***************************************************************************)
(* C21.  The key/value toggle of yaml_find_key_on_root.                    *)
(***************************************************************************)
\* The values of the root mapping: its 2nd, 4th, ... direct child.
TopLevelValueIndices(s) ==
    IF Ev(s, 2).type = "YAML_MAPPING_START_EVENT"
    THEN {Children(s, 2)[k] : k \in {m \in 1..Len(Children(s, 2)) : m % 2 = 0}}
    ELSE {}

ScalarIndices(s) == {i \in 0..(Len(s) - 1) : Ev(s, i).type = "YAML_SCALAR_EVENT"}

\* yaml_object_field on a well-formed document whose root is a mapping.
FindOnMapping ==
    /\ fn = "yaml_object_field"
    /\ ParsedOk
    /\ WellFormedDoc(events)
    /\ Ev(events, 2).type = "YAML_MAPPING_START_EVENT"

\* The toggle is 0 when the scan is at a top-level key and 1 when it is at a
\* top-level scalar value; the scalars compared so far are the top-level
\* scalar keys passed so far; the index returned follows a top-level key.
ToggleTracks ==
    /\ (pc = "yaml_find_key_on_root" /\ fFind.i < Len(events)) =>
          /\ fFind.i \in TopLevelKeyIndices(events) => fFind.kv_toggle = 0
          /\ fFind.i \in TopLevelValueIndices(events) \cap ScalarIndices(events)
                => fFind.kv_toggle = 1
    /\ fFind.compared \subseteq TopLevelKeyIndices(events) \cap ScalarIndices(events)
    /\ \A i \in TopLevelKeyIndices(events) \cap ScalarIndices(events) :
          i < fFind.i => i \in fFind.compared
    /\ child_location # -1 => child_location - 1 \in TopLevelKeyIndices(events)

\* C21: over a root mapping, whatever its keys and values are (scalars or
\* containers), the toggle of yaml_find_key_on_root is 0 exactly at the
\* top-level keys and 1 at the top-level scalar values, the scalars compared
\* with the key are exactly the top-level scalar keys, and no top-level value
\* is reported as the match.
C21_ToggleTracksKeysAndValues == FindOnMapping => ToggleTracks

\* Every key of the root mapping is a scalar and none of its values an alias.
ScalarKeysOnly(s) ==
    /\ TopLevelKeyIndices(s) \subseteq ScalarIndices(s)
    /\ \A i \in TopLevelValueIndices(s) : Ev(s, i).type # "YAML_ALIAS_EVENT"

\* What holds: the same when the keys of the root mapping are scalars and no
\* value of it is an alias.
C21_ToggleTracksScalarKeys ==
    (FindOnMapping /\ ScalarKeysOnly(events)) => ToggleTracks

(***************************************************************************)
(* C22.  The scans leave the parsed events as they are.                    *)
(***************************************************************************)
\* The parse has ended with success and a scan is under way or over.
AfterParse ==
    /\ input.error = "YAML_NO_ERROR"
    /\ pc \notin {"idle", "pg_parse_yaml"}

FindFound ==
    /\ fn = "yaml_object_field"
    /\ ParsedOk
    /\ child_location # -1

\* C23: every index other than -1 that yaml_find_key_on_root returns on a
\* parsed document is smaller than events_length and holds the first event of
\* a node (Scalar, SequenceStart or MappingStart), so that the unsigned scope
\* of yaml_get_sub_tree started there is never decremented below 0.
C23_ReturnedIndexStartsANode ==
    FindFound =>
        /\ child_location < Len(events)
        /\ IsNodeStart(Ev(events, child_location))
        /\ fSub.scope >= 0

\* What holds on every parsed stream: the index is that of an event after
\* the first root's first event and before the last DocumentEnd; in a stream
\* of one document, of an event inside the root node.
C23_ReturnedIndexInsideRoot ==
    FindFound =>
        /\ child_location > 2
        /\ child_location < Len(events) - 2
        /\ WellFormedDoc(events) => child_location <= NodeEnd(events, 2)

\* What holds when the root is a mapping whose keys are scalars and whose
\* values are no aliases: the index starts a node and scope stays at 0 or above.
C23_ReturnedIndexStartsANodeScalarKeys ==
    (FindFound /\ FindOnMapping /\ ScalarKeysOnly(events)) =>
        /\ IsNodeStart(Ev(events, child_location))
        /\ child_location \in TopLevelValueIndices(events)
        /\ fSub.scope >= 0

(***************************************************************************)
(* C24.  The indices yaml_get_object_type and yaml_count_array_size read.  *)
(***************************************************************************)
\* A function that calls yaml_get_object_type is past that call, on a text
\* that pg_parse_yaml has parsed with success.
TypeWasRead ==
    /\ ParsedOk
    /\ fn \in {"yaml_typeof", "yaml_sequence_length", "yaml_sequence_elements"}
    /\ pc \notin {"idle", "pg_parse_yaml", "parsed"}

\* The reads are inside the array and the asserted events are there.
ReadsWithinEvents ==
    /\ pc # "crash"
    /\ Len(events) > 2
    /\ Ev(events, 0).type = "YAML_STREAM_START_EVENT"
    /\ Ev(events, 1).type = "YAML_DOCUMENT_START_EVENT"
    /\ (pc = "done" /\ fn = "yaml_sequence_length") => fCount.i < Len(events)

\* C24: for every event sequence pg_parse_yaml returns as success, that of
\* an empty text included (StreamStart, StreamEnd), yaml_get_object_type and
\* yaml_count_array_size read only indices below events_length, and the
\* events at indices 0 and 1 are StreamStart and DocumentStart.
C24_ReadsWithinEvents == TypeWasRead => ReadsWithinEvents

\* What holds: the same for every text that holds a document.
C24_ReadsWithinEventsOfADocument ==
    (TypeWasRead /\ Len(events) > 2) => ReadsWithinEvents

(***************************************************************************)
(* C25.  The rows of yaml_sequence_elements and yaml_count_array_size.     *)
(***************************************************************************)
\* What yaml_count_array_size returns on the events s: its loop from index
\* i, with the break on scope 0.
RECURSIVE CountLoop(_, _, _, _)
CountLoop(s, i, scope, count) ==
    IF i < Len(s)
    THEN LET r == CountEvent(Ev(s, i), scope, count)
         IN  IF r.scope = 0 THEN r.count
             ELSE CountLoop(s, NextIndex(i), r.scope, r.count)
    ELSE count

CountArraySize(s) == CountLoop(s, 2, 0, 0)

\* yaml_sequence_elements has returned on a parsed stream whose event at
\* index 2 is a SequenceStart.
ElementsReturned ==
    /\ fn = "yaml_sequence_elements"
    /\ ParsedOk
    /\ pc = "done"
    /\ Ev(events, 2).type = "YAML_SEQUENCE_START_EVENT"

\* C25: on every parsed stream whose event at index 2 is a SequenceStart,
\* with or without further documents after the root sequence, the number of
\* rows of yaml_sequence_elements is the value yaml_count_array_size returns.
C25_RowsAreTheCount ==
    ElementsReturned => Len(rows) = CountArraySize(events)

\* What holds: the same on a stream of one document.
C25_RowsAreTheCountOfOneDocument ==
    (ElementsReturned /\ WellFormedDoc(events)) => Len(rows) = CountArraySize(events)

(***************************************************************************)
(* C26.  The scans terminate.                                              *)
(***************************************************************************)
\* A loop that is running goes on running: its next iteration, or the code
\* after it, is executed.
ScanStep ==
    \/ yaml_count_array_size
    \/ yaml_find_key_on_root
    \/ yaml_object_field_return
    \/ yaml_get_sub_tree_loop
    \/ yaml_get_sub_tree_return
    \/ yaml_sequence_elements_loop

\* The texts the termination is checked on: those of MaxLiveStreamLen events
\* or less, parsed or failing.
LiveInputs == {inp \in Inputs : Len(inp.events) <= MaxLiveStreamLen}

LiveInit == Init /\ input \in LiveInputs

LiveSpec == LiveInit /\ [][Next]_vars /\ WF_vars(ScanStep)

\* A step of a scan that stays in its loop visits the next index, and
\* yaml_get_sub_tree copies no event once done is set.
ScanGoesForward ==
    /\ (pc = "yaml_count_array_size" /\ pc' = pc) => fCount'.i = fCount.i + 1
    /\ (pc = "yaml_find_key_on_root" /\ pc' = pc) => fFind'.i = fFind.i + 1
    /\ (pc = "yaml_get_sub_tree" /\ pc' = pc) =>
          /\ fSub.done = 0
          /\ fSub'.i = fSub.i + 1
    /\ (pc = "yaml_get_sub_tree" /\ fSub.done # 0) =>
          /\ pc' # pc
          /\ fSub' = fSub
          /\ emitted' = emitted \o <<DocumentEnd, StreamEnd>>
    /\ (pc = "yaml_sequence_elements"
            /\ pc' \in {"yaml_sequence_elements", "yaml_get_sub_tree"}) =>
          fElem'.i = fElem.i + 1
    /\ (pc = "yaml_get_sub_tree" /\ pc' = "yaml_sequence_elements") => fElem' = fElem

\* A scan is under way, or yaml_object_field is between its two scans.
Scanning ==
    pc \in {"yaml_count_array_size", "yaml_find_key_on_root", "yaml_object_field",
            "yaml_get_sub_tree", "yaml_sequence_elements"}

\* C26: on every event sequence and from every start index, each scan
\* (yaml_count_array_size, yaml_find_key_on_root, yaml_get_sub_tree,
\* yaml_sequence_elements) visits the indices one by one in increasing order,
\* each at most once, yaml_get_sub_tree copies nothing once its done flag is
\* set, and each scan eventually ends: the call that runs the scans comes to
\* its return or to a raised error.
C26_ScansTerminate ==
    /\ [][ScanGoesForward]_vars
    /\ Scanning ~> (pc \in {"done", "error"})

\* C26's case: yaml_sequence_elements has ended after its loop went over
\* every event from index 3 and made two rows or more, yaml_get_sub_tree
\* having run on a container element and stopped by its done flag before the
\* end of the events.
C26_Witness ==
    /\ fn = "yaml_sequence_elements"
    /\ ParsedOk
    /\ pc = "done"
    /\ fElem.i = Len(events)
    /\ Len(rows) >= 2
    /\ \E k \in 1..Len(rows) : rows[k].doc # <<>>
    /\ fSub.done = 1
    /\ fSub.i < Len(events)

=============================================================================
